---- MODULE Spec2Model ----
(***************************************************************************)
(* The daily pipeline of daily_executor.py (DailyExecutor.execute and its  *)
(* four steps), the event store it writes in step 1.5, the signal file it  *)
(* writes in step 2 and the delivery loop of wechat_pusher.py.             *)
(*                                                                         *)
(* Dates are the integers 1..MaxDate (YYYY-MM-DD strings compare as their  *)
(* dates do).  Confidence values and prices are small integers.            *)
(*                                                                         *)
(* The query engine of query_engine.py (fetch_signals, get_signals_for_date *)
(* and the next-open price lookup) is modelled by operators; QuerySpec,    *)
(* ResolverSpec and PriceSpec apply them to bounded stores, arguments and  *)
(* K-line files.                                                           *)
(***************************************************************************)
EXTENDS Integers, Sequences, FiniteSets, TLC

\* ------------------------------------------------------------------ bounds
MaxStocks == 2
MaxEvents == 2
MaxDate == 2
MaxDur == 2
MaxRecipients == 2
MaxQRows == 2
MaxSeries == 2

\* data_update.timeout_seconds, read from the configuration
TimeoutSeconds == 1

Stocks == {"A", "B"}
Dates == 1..MaxDate
Confidences == {1, 2}
Prices == {10, 11}
LowPrice == CHOOSE p \in Prices : \A q \in Prices : p <= q
HighPrice == CHOOSE p \in Prices : \A q \in Prices : p >= q

StepNames == {"step1", "step1.5", "step2", "step3"}
StepOrder == <<"step1", "step1.5", "step2", "step3">>
Flags == {"skip_step1", "skip_step1_5", "skip_step2", "skip_step3", "dry_run"}

\* sequences over S of length at most n
SeqsUpTo(S, n) == UNION {[1..k -> S] : k \in 0..n}

Min(a, b) == IF a < b THEN a ELSE b

VARIABLES
    pc,               \* position of the run inside execute
    now,              \* the clock (today's date)
    skip,             \* skip_steps of the current run
    customDate,       \* custom_date of the current run (see CustomDates)
    result,           \* what execute returned: "none", "True", "False"
    executed,         \* history: the steps whose body was entered, in order
    outcome,          \* history: per step "none", "ok", "fail", "raise"
    elapsed,          \* history: time the step entered last has taken
    spawned,          \* history: number of subprocess.run calls of the run
    facts,            \* history: the fatal conditions the run has met
    dbExists,         \* the event database file exists
    store,            \* rows of divergence_events, in insertion order
    sigFile,          \* the signal file: whether it exists, has a header line, and its signals
    target_date,      \* target_date of step 1.5 (0 outside the step)
    stocks,           \* stocks_to_process of step 1.5
    idx,              \* number of loop iterations of step 1.5 completed
    total_processed,
    success_count,
    error_count,
    total_divergences,
    raisedStocks,     \* history: stocks whose processing raised an error
    last,             \* history: what the last loop iteration of step 1.5 did
    recipients,       \* enabled_recipients of push_signals
    ridx,             \* number of recipients the delivery loop has handled
    send_success,
    fail_count,
    attempts,         \* history: per recipient position, number of sends
    sendTimedOut,     \* history: some send of the run hit the request timeout
    csv,              \* the K-line files of data_dir, per stock (see Lookups)
    qargs,            \* arguments of the query made last
    qres,             \* what the query returned
    qres2,            \* what the repeated query returned
    qstage,           \* "none", "ready", "fetched", "again", "fordate", "resolved"
    resolved,         \* stock, date and result of the price lookup made last
    seen,             \* history: the dates steps 1.5 and 2 worked on, the pool step2 read
    exitStatus,       \* whether the process has exited, and its status
    sendLog,          \* history: the configured recipients, and what the loop did to each enabled one
    cmd,              \* the query command line and the configured threshold
    overlap           \* two runs that save events into the store at the same time

vars == <<pc, now, skip, customDate, result, executed, outcome, elapsed,
          spawned, facts, dbExists, store, sigFile, target_date, stocks, idx, total_processed,
          success_count, error_count, total_divergences, raisedStocks, last,
          recipients, ridx, send_success, fail_count, attempts, sendTimedOut,
          csv, qargs, qres, qres2, qstage, resolved, seen, exitStatus, sendLog,
          cmd, overlap>>

runVars == <<skip, customDate>>
loopVars == <<target_date, stocks, idx, total_processed, success_count, error_count,
              total_divergences, raisedStocks, last>>
pushVars == <<recipients, ridx, send_success, fail_count, attempts, sendTimedOut, sendLog>>
queryVars == <<csv, qargs, qres, qres2, qstage, resolved, cmd, overlap>>
mainVars == <<seen, exitStatus>>

NoLast == [events |-> <<>>, new |-> 0, dup |-> 0, fail_at |-> 0]
\* the signal file before a run: absent, or holding a header line and no row
NoSignalFile == [exists |-> FALSE, columns |-> FALSE, signals |-> <<>>]
SignalFiles == {NoSignalFile, [exists |-> TRUE, columns |-> TRUE, signals |-> <<>>]}
NoSeen == [date15 |-> 0, date2 |-> 0, pool2 |-> [kind |-> "unconfigured", codes |-> <<>>]]
NoSendLog == [configured |-> <<>>, events |-> <<>>]
NoExit == [exited |-> FALSE, status |-> 0]

\* ------------------------------------------------------------- main, dates

\* main: the skip list built from the command-line flags
MainSkipSteps(flags) ==
    (IF "skip_step1" \in flags THEN {"step1"} ELSE {})
    \cup (IF "skip_step1_5" \in flags THEN {"step1.5"} ELSE {})
    \cup (IF "skip_step2" \in flags THEN {"step2"} ELSE {})
    \cup (IF "skip_step3" \in flags \/ "dry_run" \in flags THEN {"step3"} ELSE {})

\* mutant: the skip flag of step2 is never honoured
IsSkipped_IgnoresStep2(step, skip_steps) ==
    IF step = "step1.5"
    THEN "step1.5" \in skip_steps \/ "step1_5" \in skip_steps
    ELSE step \in skip_steps /\ step # "step2"

\* execute: the test that guards each step
IsSkipped(step, skip_steps) ==
    IF step = "step1.5"
    THEN "step1.5" \in skip_steps \/ "step1_5" \in skip_steps
    ELSE step \in skip_steps

\* what --date can carry: nothing, a malformed string, or a date
CustomDates ==
    {[kind |-> "none", d |-> 0], [kind |-> "bad", d |-> 0]}
    \cup {[kind |-> "date", d |-> d] : d \in Dates}

\* mutant: the custom date is ignored
GetTodayDate_Clock(custom_date, clock) == clock

\* _get_today_date: a well-formed custom date wins, anything else is the clock
GetTodayDate(custom_date, clock) ==
    IF custom_date.kind = "none" THEN clock
    ELSE IF custom_date.kind = "date" THEN custom_date.d
    ELSE clock

\* the stock pool file of signal_generation: not configured, missing/unreadable/
\* empty, or a non-empty list of codes (one per line, repeats possible)
Pools ==
    {[kind |-> "unconfigured", codes |-> <<>>], [kind |-> "unreadable", codes |-> <<>>]}
    \cup {[kind |-> "list", codes |-> c] : c \in SeqsUpTo(Stocks, MaxStocks) \ {<<>>}}

NoPool == [kind |-> "unconfigured", codes |-> <<>>]

\* _read_stock_pool: the list of codes, or None
ReadStockPool(p) ==
    IF p.kind = "list" /\ Len(p.codes) > 0
    THEN [none |-> FALSE, codes |-> p.codes]
    ELSE [none |-> TRUE, codes |-> <<>>]

\* ------------------------------------------------------------- event store

EventRows(stock, target) ==
    {[divergence_id |-> <<stock, d>>, stock_code |-> stock, end_date |-> d,
      confidence |-> c, end_price |-> LowPrice] : d \in 1..target, c \in Confidences}

HasId(db, id) == \E i \in 1..Len(db) : db[i].divergence_id = id

\* mutant: the table has no unique-id constraint
insert_divergence_NoConstraint(db, row, fault) ==
    IF fault THEN [db |-> db, err |-> "disk I/O error"]
    ELSE [db |-> Append(db, row), err |-> "none"]

\* CCIDatabase.insert_divergence: the unique-id constraint of divergence_events
insert_divergence(db, row, fault) ==
    IF fault THEN [db |-> db, err |-> "disk I/O error"]
    ELSE IF HasId(db, row.divergence_id)
         THEN [db |-> db, err |-> "UNIQUE constraint failed"]
         ELSE [db |-> Append(db, row), err |-> "none"]

\* mutant: every insert error is raised again
OnInsertError_AlwaysReraise(err) == "reraise"

\* the except clause around insert_divergence: "absorb" or "reraise"
OnInsertError(err) ==
    IF err = "UNIQUE constraint failed" THEN "absorb" ELSE "reraise"

\* the loop that saves one stock's divergences
RECURSIVE SaveDivergences(_, _, _, _, _, _)
SaveDivergences(db, events, i, fail_at, new, dup) ==
    IF i > Len(events)
    THEN [db |-> db, new |-> new, dup |-> dup, raised |-> FALSE]
    ELSE LET r == insert_divergence(db, events[i], i = fail_at)
         IN  IF r.err = "none"
             THEN SaveDivergences(r.db, events, i + 1, fail_at, new + 1, dup)
             ELSE IF OnInsertError(r.err) = "absorb"
                  THEN SaveDivergences(r.db, events, i + 1, fail_at, new, dup + 1)
                  ELSE [db |-> r.db, new |-> new, dup |-> dup, raised |-> TRUE]

\* ------------------------------------------------------------ query engine

StockRank(code) == IF code = "A" THEN 1 ELSE 2

\* a K-line file of data_dir: absent, unreadable (read_csv or the date
\* conversion raises), or its rows in file order, each a date and an open
SeriesEntries == {[date |-> d, open |-> o] : d \in 1..(MaxDate + 1), o \in Prices}

Missing == [kind |-> "missing", entries |-> <<>>]
Unreadable == [kind |-> "unreadable", entries |-> <<>>]

Lookups(maxlen) ==
    {Missing, Unreadable}
    \cup {[kind |-> "series", entries |-> e] : e \in SeqsUpTo(SeriesEntries, maxlen)}

\* the file the data update keeps: one row per trading day 1..n, ascending
SeriesUpTo(n, o) ==
    [kind |-> "series", entries |-> [i \in 1..n |-> [date |-> i, open |-> o]]]

NoPrice == [ok |-> FALSE, price |-> 0]

\* mutant: the open is read from the row of the signal date itself
get_next_trading_day_open_price_SameDay(files, stock_code, signal_date) ==
    LET f == files[stock_code]
        hits == {i \in 1..Len(f.entries) : f.entries[i].date = signal_date}
    IN  IF f.kind # "series" THEN NoPrice
        ELSE IF hits = {} THEN NoPrice
        ELSE IF Cardinality(hits) > 1 THEN NoPrice
        ELSE LET i == CHOOSE j \in hits : TRUE
             IN  [ok |-> TRUE, price |-> f.entries[i].open]

\* _get_next_trading_day_open_price: the open of the row after the row of
\* signal_date, or None (NoPrice). A date that occurs twice makes get_loc
\* return a slice or a mask; "signal_idx + 1" then raises and None is returned.
get_next_trading_day_open_price(files, stock_code, signal_date) ==
    LET f == files[stock_code]
        hits == {i \in 1..Len(f.entries) : f.entries[i].date = signal_date}
    IN  IF f.kind = "missing" THEN NoPrice
        ELSE IF f.kind = "unreadable" THEN NoPrice
        ELSE IF hits = {} THEN NoPrice
        ELSE IF Cardinality(hits) > 1 THEN NoPrice
        ELSE LET i == CHOOSE j \in hits : TRUE
             IN  IF i + 1 > Len(f.entries) THEN NoPrice
                 ELSE [ok |-> TRUE, price |-> f.entries[i + 1].open]

\* mutant: ORDER BY end_date DESC
RowLeq_Descending(a, b) ==
    \/ a.end_date > b.end_date
    \/ a.end_date = b.end_date /\ StockRank(a.stock_code) <= StockRank(b.stock_code)

\* ORDER BY end_date, stock_code
RowLeq(a, b) ==
    \/ a.end_date < b.end_date
    \/ a.end_date = b.end_date /\ StockRank(a.stock_code) <= StockRank(b.stock_code)

\* mutant: rows with equal keys come in an order that changes from call to call
ComesBefore_Unstable(db, i, j) ==
    \/ ~RowLeq(db[j], db[i])
    \/ RowLeq(db[i], db[j]) /\ (IF qstage = "ready" THEN i < j ELSE i > j)

\* row i of db comes before row j in the result set: by RowLeq, rows with
\* equal keys in the order the engine scans them (their order in db)
ComesBefore(db, i, j) ==
    \/ ~RowLeq(db[j], db[i])
    \/ RowLeq(db[i], db[j]) /\ i < j

\* the positions P of db in the order of the result set
OrderRows(db, P) ==
    [k \in 1..Cardinality(P) |->
        CHOOSE i \in P : Cardinality({j \in P : ComesBefore(db, j, i)}) = k - 1]

InCodes(code, codes) == \E i \in 1..Len(codes) : codes[i] = code

\* mutant: "confidence = ?" in place of "confidence >= ?"
Matches_ExactConfidence(row, start_date, end_date, stock_codes, min_confidence) ==
    /\ (start_date # 0) => row.end_date >= start_date
    /\ (end_date # 0) => row.end_date <= end_date
    /\ (~stock_codes.none /\ Len(stock_codes.codes) > 0)
           => InCodes(row.stock_code, stock_codes.codes)
    /\ (min_confidence > 0) => row.confidence = min_confidence

\* the WHERE clause fetch_signals builds: stock_codes is [none, codes]; a date
\* of 0 is the empty string. Each "if <argument>:" adds its clause only for a
\* truthy argument.
Matches(row, start_date, end_date, stock_codes, min_confidence) ==
    /\ (start_date # 0) => row.end_date >= start_date
    /\ (end_date # 0) => row.end_date <= end_date
    /\ (~stock_codes.none /\ Len(stock_codes.codes) > 0)
           => InCodes(row.stock_code, stock_codes.codes)
    /\ (min_confidence > 0) => row.confidence >= min_confidence

\* mutant: the fallback price is 0.0 instead of the recorded end_price
EntryPrice_ZeroFallback(row, use_next_day_open, files) ==
    IF use_next_day_open
    THEN LET r == get_next_trading_day_open_price(files, row.stock_code, row.end_date)
         IN  IF r.ok THEN r.price ELSE 0
    ELSE row.end_price

\* "Determine entry price" of the loop over the result set
EntryPrice(row, use_next_day_open, files) ==
    IF use_next_day_open
    THEN LET r == get_next_trading_day_open_price(files, row.stock_code, row.end_date)
         IN  IF r.ok THEN r.price ELSE row.end_price
    ELSE row.end_price

\* Signal(...): the fields of signal_types.Signal the model keeps
ToSignal(row, entry_price) ==
    [stock_code |-> row.stock_code, signal_date |-> row.end_date,
     confidence |-> row.confidence, entry_price |-> entry_price,
     divergence_id |-> row.divergence_id]

fetch_signals(db, start_date, end_date, stock_codes, min_confidence, use_next_day_open, files) ==
    LET ord == OrderRows(db, {j \in 1..Len(db) :
                   Matches(db[j], start_date, end_date, stock_codes, min_confidence)})
    IN  [i \in 1..Len(ord) |->
            ToSignal(db[ord[i]], EntryPrice(db[ord[i]], use_next_day_open, files))]

\* mutant: the convenience query looks one day further
get_signals_for_date_Wider(db, signal_date, stock_codes, min_confidence, use_next_day_open, files) ==
    fetch_signals(db, signal_date, signal_date + 1, stock_codes, min_confidence,
                  use_next_day_open, files)

get_signals_for_date(db, signal_date, stock_codes, min_confidence, use_next_day_open, files) ==
    fetch_signals(db, signal_date, signal_date, stock_codes, min_confidence,
                  use_next_day_open, files)

NoFiles == [s \in Stocks |-> Missing]
NoArgs == [start_date |-> 0, end_date |-> 0, stock_codes |-> [none |-> TRUE, codes |-> <<>>],
           min_confidence |-> 0, use_next_day_open |-> FALSE]
NoResolved == [stock_code |-> "A", signal_date |-> 0, ret |-> NoPrice]
NoCmd == [given |-> FALSE, option |-> 0, configured |-> 0]
NoOverlap == [events |-> <<<<>>, <<>>>>, pos |-> <<0, 0>>, log |-> <<<<>>, <<>>>>,
              error_count |-> <<0, 0>>, ret |-> <<"none", "none">>]

\* no query has been made
QueryIdle ==
    /\ csv = NoFiles
    /\ qargs = NoArgs
    /\ qres = <<>>
    /\ qres2 = <<>>
    /\ qstage = "none"
    /\ resolved = NoResolved
    /\ cmd = NoCmd
    /\ overlap = NoOverlap

\* ------------------------------------------------------------------- state

Init ==
    /\ pc = "idle"
    /\ now = 1
    /\ skip = {}
    /\ customDate = [kind |-> "none", d |-> 0]
    /\ result = "none"
    /\ executed = <<>>
    /\ outcome = [s \in StepNames |-> "none"]
    /\ elapsed = 0
    /\ spawned = 0
    /\ facts = {}
    /\ dbExists \in BOOLEAN
    /\ store = <<>>
    /\ sigFile \in SignalFiles
    /\ target_date = 0
    /\ stocks = <<>>
    /\ idx = 0
    /\ total_processed = 0
    /\ success_count = 0
    /\ error_count = 0
    /\ total_divergences = 0
    /\ raisedStocks = 0
    /\ last = NoLast
    /\ recipients = <<>>
    /\ ridx = 0
    /\ send_success = 0
    /\ fail_count = 0
    /\ attempts = <<>>
    /\ sendTimedOut = FALSE
    /\ sendLog = NoSendLog
    /\ seen = NoSeen
    /\ exitStatus = NoExit
    /\ QueryIdle

\* main (run mode): DailyExecutor(...).execute(skip_steps, custom_date)
Start ==
    /\ pc = "idle"
    /\ ~exitStatus.exited
    /\ \E flags \in SUBSET Flags, cd \in CustomDates :
          /\ cd.kind = "date" => cd.d <= now
          /\ skip' = MainSkipSteps(flags)
          /\ customDate' = cd
    /\ pc' = "step1"
    /\ UNCHANGED <<queryVars, mainVars, now, result, executed, outcome, elapsed, spawned, facts, dbExists,
                   store, sigFile, loopVars, pushVars>>

\* execute: "if 'stepN' in skip_steps: log" for the step at pc
SkipStep(step, next) ==
    /\ pc = step
    /\ IsSkipped(step, skip)
    /\ pc' = next
    /\ result' = IF next = "done" THEN "True" ELSE result
    /\ UNCHANGED <<queryVars, mainVars, now, runVars, executed, outcome, elapsed, spawned, facts, dbExists,
                   store, sigFile, loopVars, pushVars>>

\* mutant: a failed step does not stop the run
AfterStep_NoHalt(step, ret, next) ==
    /\ outcome' = [outcome EXCEPT ![step] = ret]
    /\ pc' = next
    /\ result' = IF next = "done" THEN (IF ret = "ok" THEN "True" ELSE "False")
                  ELSE result

\* mutant: the run reports success whenever it reaches its end or stops
AfterStep_AlwaysTrue(step, ret, next) ==
    /\ outcome' = [outcome EXCEPT ![step] = ret]
    /\ IF ret = "ok"
       THEN /\ pc' = next
            /\ result' = IF next = "done" THEN "True" ELSE result
       ELSE /\ pc' = "done"
            /\ result' = "True"

\* mutant: a failed step is tried again
AfterStep_Retry(step, ret, next) ==
    /\ outcome' = [outcome EXCEPT ![step] = ret]
    /\ IF ret = "ok"
       THEN /\ pc' = next
            /\ result' = IF next = "done" THEN "True" ELSE result
       ELSE /\ pc' = step
            /\ result' = result

\* execute: what follows a step that returned ret ("ok", "fail") or raised
AfterStep(step, ret, next) ==
    /\ outcome' = [outcome EXCEPT ![step] = ret]
    /\ IF ret = "ok"
       THEN /\ pc' = next
            /\ result' = IF next = "done" THEN "True" ELSE result
       ELSE /\ pc' = "done"
            /\ result' = "False"

\* ------------------------------------------------------------------ step 1

\* mutant: the timeout is not enforced
run_subprocess_NoTimeout(launch, d, rc, timeout) ==
    IF launch # "ok" THEN "fail"
    ELSE IF rc = 0 THEN "ok"
    ELSE "fail"

\* _run_subprocess: True on exit code 0; a launch error, a timeout and a
\* non-zero exit code are all False
run_subprocess(launch, d, rc, timeout) ==
    IF launch # "ok" THEN "fail"
    ELSE IF d > timeout THEN "fail"
    ELSE IF rc = 0 THEN "ok"
    ELSE "fail"

\* step1_update_kline_data
step1_update_kline_data(script_exists, launch, d, rc) ==
    IF ~script_exists THEN "fail"
    ELSE run_subprocess(launch, d, rc, TimeoutSeconds)

Step1 ==
    /\ pc = "step1"
    /\ ~IsSkipped("step1", skip)
    /\ \E script_exists \in BOOLEAN, launch \in {"ok", "oserror"},
          d \in 0..MaxDur, rc \in {0, 1} :
          /\ AfterStep("step1", step1_update_kline_data(script_exists, launch, d, rc),
                       "step1.5")
          /\ spawned' = IF script_exists THEN spawned + 1 ELSE spawned
          /\ facts' = facts
                \cup (IF ~script_exists THEN {"script_missing"} ELSE {})
                \cup (IF script_exists /\ launch = "ok" /\ d <= TimeoutSeconds /\ rc # 0
                      THEN {"exit_nonzero"} ELSE {})
          /\ elapsed' = IF script_exists /\ launch = "ok"
                        THEN Min(d, TimeoutSeconds + 1) ELSE 0
    /\ executed' = Append(executed, "step1")
    /\ UNCHANGED <<queryVars, mainVars, now, runVars, dbExists, store, sigFile, loopVars, pushVars>>

\* ---------------------------------------------------------------- step 1.5

\* glob("*.csv"): the stocks that have a series file, each once
CsvListings == {c \in SeqsUpTo(Stocks, MaxStocks) :
                   \A i, j \in 1..Len(c) : i # j => c[i] # c[j]}

\* step1_5_update_cci_divergence up to the loop: the import, the stock pool,
\* the stock list and the opening of the database
step1_5_prepare(import_ok, p, csvs, db_open) ==
    IF ~import_ok THEN [ret |-> "fail", stocks |-> <<>>]
    ELSE IF p.kind # "unconfigured" /\ ReadStockPool(p).none
         THEN [ret |-> "fail", stocks |-> <<>>]
    ELSE LET stock_codes == IF p.kind = "unconfigured" THEN <<>>
                            ELSE ReadStockPool(p).codes
             stocks_to_process == IF Len(stock_codes) > 0 THEN stock_codes ELSE csvs
         IN  IF db_open # "ok" THEN [ret |-> "raise", stocks |-> <<>>]
             ELSE [ret |-> "loop", stocks |-> stocks_to_process]

Step15Begin ==
    /\ pc = "step1.5"
    /\ ~IsSkipped("step1.5", skip)
    /\ executed' = Append(executed, "step1.5")
    /\ \E import_ok \in BOOLEAN, p \in Pools, csvs \in CsvListings,
          db_open \in {"ok", "raise"} :
          LET r == step1_5_prepare(import_ok, p, csvs, db_open)
          IN  IF r.ret = "loop"
              THEN /\ pc' = "loop"
                   /\ stocks' = r.stocks
                   /\ target_date' = GetTodayDate(customDate, now)
                   /\ dbExists' = TRUE
                   /\ seen' = [seen EXCEPT !.date15 = GetTodayDate(customDate, now)]
                   /\ UNCHANGED <<result, outcome, facts>>
              ELSE /\ AfterStep("step1.5", r.ret, "step2")
                   /\ facts' = facts \cup
                         (IF ~import_ok THEN {"import_failed"}
                          ELSE IF r.ret = "fail" THEN {"pool_unreadable"}
                          ELSE {"db_open_failed"})
                   /\ UNCHANGED <<stocks, target_date, dbExists, seen>>
    /\ elapsed' = 0
    /\ UNCHANGED <<queryVars, exitStatus, now, runVars, spawned, store, sigFile, idx, total_processed,
                   success_count, error_count, total_divergences, raisedStocks, last,
                   pushVars>>

\* what can happen to one stock inside the loop
ContinueKinds == {"nocsv", "nodate", "empty", "short", "missingcols", "nodiv"}
StockKinds == ContinueKinds \cup {"dateerr", "raise", "events"}

\* one iteration of "for stock_code in stocks_to_process": the changes to the
\* store and to the counters
process_stock(db, kind, events, fail_at) ==
    IF kind \in ContinueKinds
    THEN [db |-> db, success |-> 0, error |-> 0, new |-> 0, dup |-> 0, div |-> 0]
    ELSE IF kind = "dateerr"
    THEN [db |-> db, success |-> 0, error |-> 0, new |-> 0, dup |-> 0, div |-> 0]
    ELSE IF kind = "raise"
    THEN [db |-> db, success |-> 0, error |-> 1, new |-> 0, dup |-> 0, div |-> 0]
    ELSE LET r == SaveDivergences(db, events, 1, fail_at, 0, 0)
         IN  IF r.raised
             THEN [db |-> r.db, success |-> 0, error |-> 1, new |-> r.new,
                   dup |-> r.dup, div |-> 0]
             ELSE [db |-> r.db, success |-> 1, error |-> 0, new |-> r.new,
                   dup |-> r.dup, div |-> r.new]

\* whether the iteration met an exception (caught by either handler)
Raised(kind, fail_at) ==
    kind \in {"dateerr", "raise"} \/ (kind = "events" /\ fail_at > 0)

\* the index the loop moves to after an iteration
NextIndex(i) == i + 1

StockBody ==
    /\ pc = "loop"
    /\ idx < Len(stocks)
    /\ LET stock == stocks[idx + 1]
       IN  \E kind \in StockKinds,
              events \in SeqsUpTo(EventRows(stock, target_date), MaxEvents) :
              \E fail_at \in 0..Len(events) :
                 /\ (kind = "events") = (Len(events) > 0)
                 /\ LET r == process_stock(store, kind, events, fail_at)
                    IN  /\ store' = r.db
                        /\ success_count' = success_count + r.success
                        /\ error_count' = error_count + r.error
                        /\ total_divergences' = total_divergences + r.div
                        /\ last' = [events |-> events, new |-> r.new, dup |-> r.dup,
                                    fail_at |-> fail_at]
                 /\ raisedStocks' = IF Raised(kind, fail_at)
                                    THEN raisedStocks + 1 ELSE raisedStocks
    /\ total_processed' = total_processed + 1
    /\ idx' = NextIndex(idx)
    /\ UNCHANGED <<queryVars, mainVars, pc, now, runVars, result, executed, outcome, elapsed, spawned, facts,
                   dbExists,
                   sigFile, target_date, stocks, pushVars>>

\* mutant: the loop waits for one more element than the list has
LoopDone_OffByOne(i, n) == i > n

\* "for ... in stocks_to_process" is exhausted after n iterations
LoopDone(i, n) == i >= n

\* mutant: the step fails when a stock has failed
step1_5_return_FailOnErrors(errors, raised) == IF errors > 0 \/ raised > 0 THEN "fail" ELSE "ok"

\* the end of step1_5_update_cci_divergence: the counters are logged and the
\* step returns True whatever they hold
step1_5_return(errors, raised) == "ok"

\* the loop is over: the with block commits and the step returns True, however
\* long the loop has taken
Step15End ==
    /\ pc = "loop"
    /\ LoopDone(idx, Len(stocks))
    /\ AfterStep("step1.5", step1_5_return(error_count, raisedStocks), "step2")
    /\ target_date' = 0
    /\ stocks' = <<>>
    /\ idx' = 0
    /\ total_processed' = 0
    /\ success_count' = 0
    /\ error_count' = 0
    /\ total_divergences' = 0
    /\ raisedStocks' = 0
    /\ last' = NoLast
    /\ \E d \in 0..MaxDur : elapsed' = d
    /\ UNCHANGED <<queryVars, mainVars, now, runVars, executed, spawned, facts, dbExists, store,
                   sigFile, pushVars>>

\* ------------------------------------------------------------------ step 2

MinConfidences == {0} \cup Confidences

\* the stocks whose K-line file the query of step2 opens: those of the rows it
\* selects
Opened(db, today, p, min_confidence) ==
    LET pool_read == IF p.kind = "unconfigured" THEN [none |-> TRUE, codes |-> <<>>]
                     ELSE ReadStockPool(p)
    IN  {db[j].stock_code : j \in {k \in 1..Len(db) :
            Matches(db[k], today, today, pool_read, min_confidence)}}

\* data_dir as a run finds it: for each stock whose file is opened no file, or
\* the rows up to today (a live run), or up to the day after (a replay of an
\* earlier date)
RunFiles(today, opened) ==
    {[s \in Stocks |-> IF s \in opened THEN f[s] ELSE Missing] :
        f \in [opened -> {Missing, SeriesUpTo(today, HighPrice),
                          SeriesUpTo(today + 1, HighPrice)}]}

\* step2 fails, or the store holds no row of today
Step2Blind(db_exists, db, today, query_err, write_err) ==
    \/ ~db_exists \/ query_err \/ write_err
    \/ \A j \in 1..Len(db) : db[j].end_date # today

\* the pool files that differ as sets of codes
PoolsAsSets ==
    {p \in Pools : \A i, j \in 1..Len(p.codes) :
                       i < j => StockRank(p.codes[i]) < StockRank(p.codes[j])}

\* mutant: the query engine does not check that the database exists
step2_generate_signals_NoDbCheck(p, db_exists, db, today, min_confidence, use_next_day_open, files, query_err, write_err) ==
    LET pool_read == IF p.kind = "unconfigured" THEN [none |-> TRUE, codes |-> <<>>]
                     ELSE ReadStockPool(p)
    IN  IF query_err \/ write_err
        THEN [ret |-> "fail", written |-> FALSE, pool |-> p, signals |-> <<>>]
        ELSE [ret |-> "ok", written |-> TRUE, pool |-> p,
              signals |-> get_signals_for_date(db, today, pool_read, min_confidence,
                                               use_next_day_open, files)]

\* step2_generate_signals: "fail" or the signals written to the output file
step2_generate_signals(p, db_exists, db, today, min_confidence, use_next_day_open, files, query_err, write_err) ==
    LET pool_read == IF p.kind = "unconfigured" THEN [none |-> TRUE, codes |-> <<>>]
                     ELSE ReadStockPool(p)
    IN  IF ~db_exists \/ query_err \/ write_err
        THEN [ret |-> "fail", written |-> FALSE, pool |-> p, signals |-> <<>>]
        ELSE [ret |-> "ok", written |-> TRUE, pool |-> p,
              signals |-> get_signals_for_date(db, today, pool_read, min_confidence,
                                               use_next_day_open, files)]

\* what step2_generate_signals can return in a run: over the pool file, the
\* configured min_confidence and use_next_day_open, the K-line files and the
\* failures of the query and of the write. The thresholds a failing call never
\* reads, or a query over a store without rows of today cannot depend on, and
\* the files a call never opens, are not enumerated; the pool is read as a set.
Step2Outcomes(db_exists, db, today) ==
    UNION {
      UNION {
        {step2_generate_signals(p, db_exists, db, today, min_confidence,
                                use_next_day_open, files, query_err, write_err) :
            files \in (IF ~use_next_day_open THEN {NoFiles}
                       ELSE RunFiles(today, Opened(db, today, p, min_confidence)))} :
        p \in PoolsAsSets,
        min_confidence \in (IF Step2Blind(db_exists, db, today, query_err, write_err)
                            THEN {0} ELSE MinConfidences),
        use_next_day_open \in (IF Step2Blind(db_exists, db, today, query_err, write_err)
                               THEN {FALSE} ELSE BOOLEAN)} :
      query_err \in BOOLEAN, write_err \in BOOLEAN}

\* pd.DataFrame(signals_data).to_csv(output_file, index=False): a frame built
\* from no record has no column, and its file has no header line
to_csv(signals) == [exists |-> TRUE, columns |-> Len(signals) > 0, signals |-> signals]

Step2 ==
    /\ pc = "step2"
    /\ ~IsSkipped("step2", skip)
    /\ executed' = Append(executed, "step2")
    /\ \E r \in Step2Outcomes(dbExists, store, GetTodayDate(customDate, now)) :
          /\ AfterStep("step2", r.ret, "step3")
          /\ sigFile' = IF r.written THEN to_csv(r.signals) ELSE sigFile
          /\ seen' = [seen EXCEPT !.date2 = GetTodayDate(customDate, now),
                                  !.pool2 = r.pool]
    /\ \E d \in 0..MaxDur : elapsed' = d
    /\ facts' = facts \cup (IF ~dbExists THEN {"db_missing"} ELSE {})
    /\ UNCHANGED <<queryVars, exitStatus, now, runVars, spawned, dbExists, store, loopVars, pushVars>>

\* ------------------------------------------------------------------ step 3

RecipientKinds == {"disabled", "placeholder", "valid"}

RECURSIVE EnabledRecipients(_)
EnabledRecipients(rs) ==
    IF rs = <<>> THEN <<>>
    ELSE (IF Head(rs) # "disabled" THEN <<Head(rs)>> ELSE <<>>)
         \o EnabledRecipients(Tail(rs))

\* step3_push_to_wechat and push_signals up to the delivery loop
step3_prepare(file, init_err, read_err, push_on_no_signals, rs) ==
    IF ~file.exists THEN "fail"
    ELSE IF init_err THEN "fail"
    ELSE IF read_err \/ ~file.columns THEN "fail"
    ELSE IF Len(file.signals) = 0 /\ ~push_on_no_signals THEN "ok"
    ELSE IF EnabledRecipients(rs) = <<>> THEN "ok"
    ELSE "push"

Step3Begin ==
    /\ pc = "step3"
    /\ ~IsSkipped("step3", skip)
    /\ executed' = Append(executed, "step3")
    /\ \E init_err \in BOOLEAN, read_err \in BOOLEAN :
          \* the configuration a failing call never reads is not enumerated
          /\ \E push_on_no_signals \in (IF ~sigFile.exists \/ init_err \/ read_err
                                        THEN {FALSE} ELSE BOOLEAN),
                rs \in (IF ~sigFile.exists \/ init_err \/ read_err
                        THEN {<<>>} ELSE SeqsUpTo(RecipientKinds, MaxRecipients)) :
                LET r == step3_prepare(sigFile, init_err, read_err, push_on_no_signals, rs)
                IN  IF r = "push"
                    THEN /\ pc' = "push"
                         /\ recipients' = EnabledRecipients(rs)
                         /\ attempts' = [i \in 1..Len(EnabledRecipients(rs)) |-> 0]
                         /\ sendLog' = [configured |-> rs, events |-> <<>>]
                         /\ UNCHANGED <<result, outcome>>
                    ELSE /\ AfterStep("step3", r, "done")
                         /\ UNCHANGED <<recipients, attempts, sendLog>>
          /\ facts' = facts \cup
                (IF ~sigFile.exists THEN {"signals_missing"}
                 ELSE IF init_err THEN {"pusher_failed"}
                 ELSE IF read_err THEN {"read_failed"}
                 ELSE {})
    /\ elapsed' = 0
    /\ UNCHANGED <<queryVars, mainVars, now, runVars, spawned, dbExists, store, sigFile, loopVars,
                   ridx, send_success, fail_count, sendTimedOut>>

SendOutcomes == {"ok", "api_error", "http_error", "timeout", "network", "exception"}

\* mutant: an answer with an error code counts as delivered
send_to_recipient_Lenient(o) == o \in {"ok", "api_error"}

\* _send_to_recipient: True only for an answer with code 0
send_to_recipient(o) == o = "ok"

\* one iteration of "for recipient in enabled_recipients"
Send ==
    /\ pc = "push"
    /\ ridx < Len(recipients)
    /\ IF recipients[ridx + 1] = "placeholder"
       THEN /\ sendLog' = [sendLog EXCEPT !.events = Append(@, "skipped")]
            /\ UNCHANGED <<send_success, fail_count, attempts, sendTimedOut, elapsed>>
       ELSE \E o \in SendOutcomes :
               /\ sendLog' = [sendLog EXCEPT !.events =
                                  Append(@, IF o = "ok" THEN "accepted" ELSE "refused")]
               /\ send_success' = IF send_to_recipient(o)
                                  THEN send_success + 1 ELSE send_success
               /\ fail_count' = IF send_to_recipient(o)
                                THEN fail_count ELSE fail_count + 1
               /\ attempts' = [attempts EXCEPT ![ridx + 1] = @ + 1]
               /\ sendTimedOut' = (sendTimedOut \/ o = "timeout")
               /\ elapsed' = IF o = "timeout" THEN MaxDur ELSE elapsed
    /\ ridx' = ridx + 1
    /\ UNCHANGED <<queryVars, mainVars, pc, now, runVars, result, executed, outcome, spawned, facts,
                   dbExists, store, sigFile, loopVars, recipients>>

\* push_signals returns fail_count == 0
PushEnd ==
    /\ pc = "push"
    /\ ridx >= Len(recipients)
    /\ AfterStep("step3", IF fail_count = 0 THEN "ok" ELSE "fail", "done")
    /\ facts' = facts \cup (IF \E i \in 1..Len(sendLog.events) : sendLog.events[i] = "refused"
                            THEN {"send_refused"} ELSE {})
    /\ recipients' = <<>>
    /\ ridx' = 0
    /\ send_success' = 0
    /\ fail_count' = 0
    /\ attempts' = <<>>
    /\ sendLog' = NoSendLog
    /\ UNCHANGED <<queryVars, mainVars, now, runVars, executed, elapsed, spawned, dbExists, store,
                   sigFile, loopVars, sendTimedOut>>

\* ------------------------------------------------------------ main, clock

\* datetime.now(): midnight passes after step 1.5 has read the clock and before
\* step 2 reads it
ClockTick ==
    /\ pc \in {"loop", "step2"}
    /\ now < MaxDate
    /\ now' = now + 1
    /\ UNCHANGED <<queryVars, mainVars, pc, runVars, result, executed, outcome, elapsed,
                   spawned, facts, dbExists, store, sigFile, loopVars, pushVars>>

\* mutant: the process always exits with 0
exit_code_AlwaysZero(success) == 0

\* main: sys.exit(0 if success else 1)
exit_code(success) == IF success THEN 0 ELSE 1

Exit ==
    /\ pc = "done"
    /\ ~exitStatus.exited
    /\ exitStatus' = [exited |-> TRUE, status |-> exit_code(result = "True")]
    /\ UNCHANGED <<queryVars, seen, pc, now, runVars, result, executed, outcome, elapsed,
                   spawned, facts, dbExists, store, sigFile, loopVars, pushVars>>

\* main: DailyExecutor(config_file) raises (the configuration cannot be loaded)
\* and "except Exception" exits with 1
StartFails ==
    /\ pc = "idle"
    /\ ~exitStatus.exited
    /\ exitStatus' = [exited |-> TRUE, status |-> 1]
    /\ facts' = facts \cup {"init_raised"}
    /\ UNCHANGED <<queryVars, seen, pc, now, runVars, result, executed, outcome, elapsed,
                   spawned, dbExists, store, sigFile, loopVars, pushVars>>

\* ------------------------------------------------------------ specification

Next ==
    \/ Start
    \/ StartFails
    \/ ClockTick
    \/ Exit
    \/ SkipStep("step1", "step1.5")
    \/ Step1
    \/ SkipStep("step1.5", "step2")
    \/ Step15Begin
    \/ StockBody
    \/ Step15End
    \/ SkipStep("step2", "step3")
    \/ Step2
    \/ SkipStep("step3", "done")
    \/ Step3Begin
    \/ Send
    \/ PushEnd

Spec == Init /\ [][Next]_vars

\* step2 runs to its end. Under Next the step that leaves "step2" unskipped is
\* Step2, which has an outcome in every state; the step is recognised by its
\* guard and the move of pc.
Step2Runs ==
    /\ pc = "step2"
    /\ ~IsSkipped("step2", skip)
    /\ pc' \in {"step3", "done"}

\* the other steps of a run that has started: the process keeps executing
RunSteps ==
    \/ SkipStep("step1", "step1.5")
    \/ Step1
    \/ SkipStep("step1.5", "step2")
    \/ Step15Begin
    \/ StockBody
    \/ Step15End
    \/ SkipStep("step2", "step3")
    \/ SkipStep("step3", "done")
    \/ Step3Begin
    \/ Send
    \/ PushEnd

FairSpec == Spec /\ WF_vars(RunSteps) /\ WF_pc(Step2Runs)

\* ------------------------------------------- the ingestion loop on its own

MaxStored == 1

AllEventRows == UNION {EventRows(s, MaxDate) : s \in Stocks}

\* what earlier runs can have left in divergence_events
InitStores == {db \in SeqsUpTo(AllEventRows, MaxStored) :
                  \A i, j \in 1..Len(db) :
                      i # j => db[i].divergence_id # db[j].divergence_id}

\* step 1.5 of a run, at the entry of its loop, over a store earlier runs filled
IngestInit ==
    /\ pc = "loop"
    /\ now \in Dates
    /\ skip = {"step1"}
    /\ customDate = [kind |-> "none", d |-> 0]
    /\ result = "none"
    /\ executed = <<"step1.5">>
    /\ outcome = [s \in StepNames |-> "none"]
    /\ elapsed = 0
    /\ spawned = 0
    /\ facts = {}
    /\ dbExists = TRUE
    /\ store \in InitStores
    /\ sigFile = NoSignalFile
    /\ target_date = now
    /\ stocks \in SeqsUpTo(Stocks, MaxStocks)
    /\ idx = 0
    /\ total_processed = 0
    /\ success_count = 0
    /\ error_count = 0
    /\ total_divergences = 0
    /\ raisedStocks = 0
    /\ last = NoLast
    /\ recipients = <<>>
    /\ ridx = 0
    /\ send_success = 0
    /\ fail_count = 0
    /\ attempts = <<>>
    /\ sendTimedOut = FALSE
    /\ sendLog = NoSendLog
    /\ seen = [NoSeen EXCEPT !.date15 = now]
    /\ exitStatus = NoExit
    /\ QueryIdle

IngestNext ==
    \/ StockBody
    \/ Step15End

IngestSpec == IngestInit /\ [][IngestNext]_vars

\* ------------------------------------------------ the query engine on its own

pipelineVars == <<pc, now, runVars, mainVars, result, executed, outcome, elapsed, spawned, facts,
                  dbExists, store, sigFile, loopVars, pushVars>>

\* a process that runs no pipeline: QueryEngine over an existing database
NoRun ==
    /\ pc = "query"
    /\ now = 1
    /\ skip = {}
    /\ customDate = [kind |-> "none", d |-> 0]
    /\ result = "none"
    /\ executed = <<>>
    /\ outcome = [s \in StepNames |-> "none"]
    /\ elapsed = 0
    /\ spawned = 0
    /\ facts = {}
    /\ dbExists = TRUE
    /\ sigFile = NoSignalFile
    /\ target_date = 0
    /\ stocks = <<>>
    /\ idx = 0
    /\ total_processed = 0
    /\ success_count = 0
    /\ error_count = 0
    /\ total_divergences = 0
    /\ raisedStocks = 0
    /\ last = NoLast
    /\ recipients = <<>>
    /\ ridx = 0
    /\ send_success = 0
    /\ fail_count = 0
    /\ attempts = <<>>
    /\ sendTimedOut = FALSE
    /\ sendLog = NoSendLog
    /\ seen = NoSeen
    /\ exitStatus = NoExit

\* rows of divergence_events as a query can find them: the detector names each
\* event, and two events of a stock can end on the same day (variant k: another
\* start, another confidence and end_price)
QueryRows ==
    {[divergence_id |-> <<s, d, k>>, stock_code |-> s, end_date |-> d,
      confidence |-> k, end_price |-> (IF k = 1 THEN LowPrice ELSE HighPrice)] :
        s \in Stocks, d \in Dates, k \in Confidences}

\* the table in every insertion order, ids unique
QStores == {db \in SeqsUpTo(QueryRows, MaxQRows) :
               \A i, j \in 1..Len(db) :
                   i # j => db[i].divergence_id # db[j].divergence_id}

\* the stock_codes argument: None, or a list (possibly empty, repeats possible)
StockCodeArgs ==
    {[none |-> TRUE, codes |-> <<>>]}
    \cup {[none |-> FALSE, codes |-> c] : c \in SeqsUpTo(Stocks, MaxStocks)}

\* a date argument: 0 is the empty string
DateArgs == 0..MaxDate

\* every stock has a file with a row for each day up to the day after MaxDate
FullFiles == [s \in Stocks |-> SeriesUpTo(MaxDate + 1, HighPrice)]

QueryInit ==
    /\ NoRun
    /\ store \in QStores
    /\ csv \in {NoFiles, FullFiles}
    /\ qargs = NoArgs
    /\ qres = <<>>
    /\ qres2 = <<>>
    /\ qstage = "ready"
    /\ resolved = NoResolved
    /\ cmd = NoCmd
    /\ overlap = NoOverlap

\* a call of fetch_signals
Fetch ==
    /\ qstage = "ready"
    /\ \E start_date \in DateArgs, end_date \in DateArgs, stock_codes \in StockCodeArgs,
          min_confidence \in MinConfidences, use_next_day_open \in BOOLEAN :
          /\ qargs' = [start_date |-> start_date, end_date |-> end_date,
                       stock_codes |-> stock_codes, min_confidence |-> min_confidence,
                       use_next_day_open |-> use_next_day_open]
          /\ qres' = fetch_signals(store, start_date, end_date, stock_codes,
                                   min_confidence, use_next_day_open, csv)
    /\ qstage' = "fetched"
    /\ UNCHANGED <<pipelineVars, cmd, overlap, csv, qres2, resolved>>

\* the same call once more: same arguments, same table, same files
Refetch ==
    /\ qstage = "fetched"
    /\ qres2' = fetch_signals(store, qargs.start_date, qargs.end_date, qargs.stock_codes,
                              qargs.min_confidence, qargs.use_next_day_open, csv)
    /\ qstage' = "again"
    /\ UNCHANGED <<pipelineVars, cmd, overlap, csv, qargs, qres, resolved>>

\* a call of get_signals_for_date, and of fetch_signals with start = end
ForDate ==
    /\ qstage = "ready"
    /\ \E signal_date \in Dates, stock_codes \in StockCodeArgs,
          min_confidence \in MinConfidences, use_next_day_open \in BOOLEAN :
          /\ qargs' = [start_date |-> signal_date, end_date |-> signal_date,
                       stock_codes |-> stock_codes, min_confidence |-> min_confidence,
                       use_next_day_open |-> use_next_day_open]
          /\ qres' = get_signals_for_date(store, signal_date, stock_codes,
                                          min_confidence, use_next_day_open, csv)
          /\ qres2' = fetch_signals(store, signal_date, signal_date, stock_codes,
                                    min_confidence, use_next_day_open, csv)
    /\ qstage' = "fordate"
    /\ UNCHANGED <<pipelineVars, cmd, overlap, csv, resolved>>

QueryNext ==
    \/ Fetch
    \/ Refetch
    \/ ForDate

QuerySpec == QueryInit /\ [][QueryNext]_vars

\* ----------------------------------------------- the price resolver on its own

\* data_dir with the file of one stock in every content a file can have
FocusFiles(other) ==
    {[s \in Stocks |-> IF s = "A" THEN f ELSE other] : f \in Lookups(MaxSeries)}

ResolverInit ==
    /\ NoRun
    /\ store = <<>>
    /\ csv \in FocusFiles(Missing)
    /\ qargs = NoArgs
    /\ qres = <<>>
    /\ qres2 = <<>>
    /\ qstage = "ready"
    /\ resolved = NoResolved
    /\ cmd = NoCmd
    /\ overlap = NoOverlap

\* a call of _get_next_trading_day_open_price
Resolve ==
    /\ qstage = "ready"
    /\ \E stock_code \in Stocks, signal_date \in Dates :
          resolved' = [stock_code |-> stock_code, signal_date |-> signal_date,
                       ret |-> get_next_trading_day_open_price(csv, stock_code, signal_date)]
    /\ qstage' = "resolved"
    /\ UNCHANGED <<pipelineVars, cmd, overlap, csv, qargs, qres, qres2>>

ResolverNext == Resolve

ResolverSpec == ResolverInit /\ [][ResolverNext]_vars

\* ------------------------------------------- queries in next-open price mode

PriceInit ==
    /\ NoRun
    /\ store \in QStores
    /\ csv \in FocusFiles(Missing) \cup FocusFiles(SeriesUpTo(MaxDate + 1, HighPrice))
    /\ qargs = NoArgs
    /\ qres = <<>>
    /\ qres2 = <<>>
    /\ qstage = "ready"
    /\ resolved = NoResolved
    /\ cmd = NoCmd
    /\ overlap = NoOverlap

\* fetch_signals(start_date, end_date) with use_next_day_open = True
FetchNextOpen ==
    /\ qstage = "ready"
    /\ \E start_date \in DateArgs, end_date \in DateArgs :
          /\ qargs' = [NoArgs EXCEPT !.start_date = start_date, !.end_date = end_date,
                                     !.use_next_day_open = TRUE]
          /\ qres' = fetch_signals(store, start_date, end_date, NoArgs.stock_codes,
                                   NoArgs.min_confidence, TRUE, csv)
    /\ qstage' = "fetched"
    /\ UNCHANGED <<pipelineVars, cmd, overlap, csv, qres2, resolved>>

PriceNext == FetchNextOpen

PriceSpec == PriceInit /\ [][PriceNext]_vars

\* ------------------------------------------------------- the query command

\* what "query" can carry as dates: --date, --date-range, or neither
QueryDates ==
    {[kind |-> "none", start_date |-> 0, end_date |-> 0]}
    \cup {[kind |-> "date", start_date |-> d, end_date |-> d] : d \in Dates}
    \cup {[kind |-> "range", start_date |-> d, end_date |-> e] : d \in Dates, e \in Dates}

\* --stock-code: absent or one code
QueryStockCodes(code) ==
    IF code = "" THEN [none |-> TRUE, codes |-> <<>>] ELSE [none |-> FALSE, codes |-> <<code>>]

\* run_query_command: "args.min_confidence if args.min_confidence else
\* signal_config.get('min_confidence', 0.0)"; an absent option is None, and None
\* and 0.0 are both false
QueryMinConfidence(given, option, configured) ==
    IF given /\ option # 0 THEN option ELSE configured

CommandInit ==
    /\ NoRun
    /\ store \in QStores
    /\ csv \in {NoFiles, FullFiles}
    /\ qargs = NoArgs
    /\ qres = <<>>
    /\ qres2 = <<>>
    /\ qstage = "ready"
    /\ resolved = NoResolved
    /\ cmd = NoCmd
    /\ overlap = NoOverlap

\* run_query_command with dates: the query is made with the resolved threshold
\* and the configured price mode (the printing of the result is not modelled)
RunQuery ==
    /\ qstage = "ready"
    /\ \E dates \in QueryDates \ {[kind |-> "none", start_date |-> 0, end_date |-> 0]},
          code \in {""} \cup Stocks, given \in BOOLEAN, configured \in MinConfidences,
          use_next_day_open \in BOOLEAN :
       \E option \in (IF given THEN MinConfidences ELSE {0}) :
          LET min_confidence == QueryMinConfidence(given, option, configured)
          IN  /\ cmd' = [given |-> given, option |-> option, configured |-> configured]
              /\ qargs' = [start_date |-> dates.start_date, end_date |-> dates.end_date,
                           stock_codes |-> QueryStockCodes(code),
                           min_confidence |-> min_confidence,
                           use_next_day_open |-> use_next_day_open]
              /\ qres' = fetch_signals(store, dates.start_date, dates.end_date,
                                       QueryStockCodes(code), min_confidence,
                                       use_next_day_open, csv)
    /\ qstage' = "command"
    /\ UNCHANGED <<pipelineVars, overlap, csv, qres2, resolved>>

\* run_query_command without --date and --date-range: "必须指定 --date 或
\* --date-range" and exit, no query is made
RejectQuery ==
    /\ qstage = "ready"
    /\ qstage' = "rejected"
    /\ UNCHANGED <<pipelineVars, cmd, overlap, csv, qargs, qres, qres2, resolved>>

CommandNext ==
    \/ RunQuery
    \/ RejectQuery

CommandSpec == CommandInit /\ [][CommandNext]_vars

\* ---------------------------------------- two runs of step 1.5 on one store

Runs == {1, 2}

\* the events one run detects, stock after stock
OverlapEvents == SeqsUpTo(AllEventRows, MaxEvents) \ {<<>>}

\* after an exception at position i the per-stock handler takes over: the rest
\* of that stock's events is not inserted
RECURSIVE SkipStock(_, _)
SkipStock(events, i) ==
    IF i < Len(events) /\ events[i + 1].stock_code = events[i].stock_code
    THEN SkipStock(events, i + 1)
    ELSE i

\* two runs are inside the loop of step 1.5 on the same divergence_events, each
\* with the events it has detected
OverlapInit ==
    /\ NoRun
    /\ store = <<>>
    /\ csv = NoFiles
    /\ qargs = NoArgs
    /\ qres = <<>>
    /\ qres2 = <<>>
    /\ qstage = "none"
    /\ resolved = NoResolved
    /\ cmd = NoCmd
    /\ \E e1 \in OverlapEvents, e2 \in OverlapEvents :
          overlap = [events |-> <<e1, e2>>, pos |-> <<0, 0>>,
                     log |-> <<[i \in 1..Len(e1) |-> "none"], [i \in 1..Len(e2) |-> "none"]>>,
                     error_count |-> <<0, 0>>, ret |-> <<"none", "none">>]

\* run r makes its next insert. The store applies inserts one at a time; while
\* the other run holds the write lock the insert can fail with "database is
\* locked" (fault), which is not a UNIQUE failure.
OverlapInsert(r) ==
    /\ overlap.ret[r] = "none"
    /\ overlap.pos[r] < Len(overlap.events[r])
    /\ \E fault \in BOOLEAN :
          LET i == overlap.pos[r] + 1
              res == insert_divergence(store, overlap.events[r][i], fault)
              kind == IF fault THEN "locked"
                      ELSE IF res.err = "none" THEN "new"
                      ELSE IF OnInsertError(res.err) = "absorb" THEN "dup"
                      ELSE "error"
              raised == kind \in {"locked", "error"}
          IN  /\ store' = res.db
              /\ overlap' = [overlap EXCEPT
                    !.pos[r] = IF raised THEN SkipStock(overlap.events[r], i) ELSE i,
                    !.log[r][i] = kind,
                    !.error_count[r] = IF raised THEN @ + 1 ELSE @]
    /\ UNCHANGED <<pc, now, runVars, mainVars, result, executed, outcome, elapsed, spawned,
                   facts, dbExists, sigFile, loopVars, pushVars, csv, qargs, qres, qres2,
                   qstage, resolved, cmd>>

\* run r has no event left: its step returns
OverlapReturn(r) ==
    /\ overlap.ret[r] = "none"
    /\ overlap.pos[r] = Len(overlap.events[r])
    /\ overlap' = [overlap EXCEPT
          !.ret[r] = step1_5_return(overlap.error_count[r], overlap.error_count[r])]
    /\ UNCHANGED <<pipelineVars, csv, qargs, qres, qres2, qstage, resolved, cmd>>

OverlapNext ==
    \/ \E r \in Runs : OverlapInsert(r)
    \/ \E r \in Runs : OverlapReturn(r)

OverlapSpec == OverlapInit /\ [][OverlapNext]_vars

\* ------------------------------------------------------------------ claims

InSeq(x, q) == \E i \in 1..Len(q) : q[i] = x

StepIndex(step) == CHOOSE i \in 1..Len(StepOrder) : StepOrder[i] = step

Failed(step) == outcome[step] \in {"fail", "raise"}

\* C1: fail-fast. A step that was executed and failed (returned False or raised)
\* is the last step the run executes, and the run has ended with execute
\* returning False.
C1_FailFast ==
    \A i \in 1..Len(executed) :
        Failed(executed[i]) =>
            /\ i = Len(executed)
            /\ pc = "done"
            /\ result = "False"

\* nothing skipped, step1 succeeded, step1.5 failed: step2 and step3 never ran
C1_Witness ==
    /\ skip = {}
    /\ executed = <<"step1", "step1.5">>
    /\ outcome["step1"] = "ok"
    /\ Failed("step1.5")
    /\ pc = "done"
    /\ result = "False"

\* C2: skip. A step named in the skip set is never executed and has no outcome,
\* and from a skipped step the run moves on to the next step of the list (to
\* success, after step3) without failing.
C2_SkipNeverRuns ==
    \A s \in skip : ~InSeq(s, executed) /\ outcome[s] = "none"

C2_SkipAdvances ==
    \A s \in StepNames :
        \* a step of the run, not of the clock
        (pc = s /\ s \in skip /\ now' = now) =>
            /\ pc' = (IF s = "step3" THEN "done" ELSE StepOrder[StepIndex(s) + 1])
            /\ result' = (IF s = "step3" THEN "True" ELSE result)
            /\ executed' = executed
            /\ outcome' = outcome

\* C2: a step named in skip_steps is never executed, and skipping it moves the
\* run on to the next step without recording an outcome.
C2_Skip == []C2_SkipNeverRuns /\ [][C2_SkipAdvances]_vars

\* step1.5 skipped: it did not run and step2 ran after step1
C2_Witness ==
    /\ skip = {"step1.5"}
    /\ executed = <<"step1", "step2">>
    /\ outcome["step1.5"] = "none"

\* C3: the run result. execute has returned exactly when the run is over; it
\* returns True iff every step outside the skip set was executed and succeeded,
\* and False iff some step outside the skip set failed or raised.
C3_RunResult ==
    /\ (pc = "done") = (result # "none")
    /\ result \in {"none", "True", "False"}
    /\ pc = "done" =>
          /\ (result = "True") =
                (\A s \in StepNames \ skip : InSeq(s, executed) /\ outcome[s] = "ok")
          /\ (result = "False") = (\E s \in StepNames \ skip : Failed(s))

\* a run that ends with False because the database could not be opened in
\* step 1.5 (the exception reaches execute's own handler)
C3_Witness ==
    /\ pc = "done"
    /\ result = "False"
    /\ outcome["step1.5"] = "raise"

\* C4: order and no retry. The executed steps appear in the order of the fixed
\* list, each at most once, and the external process of step1 is started at
\* most once.
C4_OrderNoRetry ==
    /\ \A i, j \in 1..Len(executed) :
          i < j => StepIndex(executed[i]) < StepIndex(executed[j])
    /\ \A i \in 1..Len(executed) : executed[i] \in StepNames
    /\ spawned <= 1

\* all four steps ran in order and the last one failed: it is not run again
C4_Witness ==
    /\ executed = StepOrder
    /\ outcome["step3"] = "fail"
    /\ pc = "done"

LastStep == executed[Len(executed)]

\* C5 as stated: timeout is failure for every step. Whatever step has completed
\* after taking longer than the configured timeout has failed, and the run has
\* ended in failure.
C5_TimeoutEveryStep ==
    (Len(executed) > 0 /\ outcome[LastStep] # "none" /\ elapsed > TimeoutSeconds)
        => (outcome[LastStep] = "fail" /\ pc = "done" /\ result = "False")

\* C5 as amended: timeout is failure for the two steps that have one. When the
\* external process of step1 exceeds data_update.timeout_seconds, or a delivery
\* request of step3 times out, the step fails and the run ends in failure; the
\* process is started once and each recipient is tried once (no retry).
C5_TimeoutFails ==
    /\ (Len(executed) > 0 /\ LastStep = "step1" /\ elapsed > TimeoutSeconds)
          => (outcome["step1"] = "fail" /\ pc = "done" /\ result = "False")
    /\ sendTimedOut =>
          IF pc = "push" THEN fail_count > 0
          ELSE outcome["step3"] = "fail" /\ pc = "done" /\ result = "False"
    /\ spawned <= 1
    /\ \A i \in 1..Len(attempts) : attempts[i] <= 1

\* the data-update process ran into its timeout: step1 failed, the run is over
C5_Witness ==
    /\ executed = <<"step1">>
    /\ spawned = 1
    /\ elapsed > TimeoutSeconds
    /\ result = "False"

\* C6: fatal step-level errors. A missing data-update script or a non-zero exit
\* code (step1), a missing event database (step2) and a missing signal file
\* (step3) each make their step return failure; that step is the last one
\* executed and the run ends in failure.
FatalAt(step) ==
    /\ Len(executed) > 0
    /\ LastStep = step
    /\ outcome[step] = "fail"
    /\ pc = "done"
    /\ result = "False"

C6_FatalErrors ==
    /\ "script_missing" \in facts => FatalAt("step1") /\ spawned = 0
    /\ "exit_nonzero" \in facts => FatalAt("step1")
    /\ "db_missing" \in facts => FatalAt("step2")
    /\ "signals_missing" \in facts => FatalAt("step3")

\* step 1.5 skipped, no event database: step2 fails and step3 never runs
C6_Witness ==
    /\ facts = {"db_missing"}
    /\ executed = <<"step1", "step2">>
    /\ "step3" \notin skip

\* C7: termination. Every run that has started reaches the end of execute, with
\* result True or False.
C7_Termination == (pc # "idle") ~> (pc = "done" /\ result \in {"True", "False"})

\* a run that went through the stock loop and the delivery loop and ended
C7_Witness ==
    /\ pc = "done"
    /\ result = "True"
    /\ executed = StepOrder
    /\ sendTimedOut = FALSE
    /\ Len(store) = MaxEvents

\* C8 as stated: per-stock failure isolation. Inside the loop every stock reached
\* so far has been processed, and the error counter equals the number of stocks
\* whose processing raised an error.
C8_Isolation ==
    pc = "loop" =>
        /\ total_processed = idx
        /\ idx <= Len(stocks)
        /\ error_count = raisedStocks

Ids(db) == {db[i].divergence_id : i \in 1..Len(db)}

\* C9: idempotent ingestion. The store never holds two rows with the same id;
\* a step only appends rows whose id was not present, and leaves every existing
\* row as it was (so inserting a present id changes neither the row count nor
\* the row).
C9_UniqueIds ==
    \A i, j \in 1..Len(store) :
        i # j => store[i].divergence_id # store[j].divergence_id

C9_InsertStep ==
    /\ Len(store) <= Len(store')
    /\ SubSeq(store', 1, Len(store)) = store
    /\ \A k \in (Len(store) + 1)..Len(store') : ~HasId(store, store'[k].divergence_id)
    /\ Len(store') - Len(store) = Cardinality(Ids(store') \ Ids(store))

\* C9: the store holds exactly one row per distinct event id at all times, and
\* no step adds a row for a present id or changes an existing row.
C9_Idempotent == []C9_UniqueIds /\ [][C9_InsertStep]_vars

\* a batch whose events were all present already: nothing new, store kept
C9_Witness ==
    /\ pc = "loop"
    /\ Len(last.events) = MaxEvents
    /\ last.fail_at = 0
    /\ last.dup = Len(last.events)
    /\ last.new = 0
    /\ Len(store) > 0

\* the inserts of a batch that collide: the id is in the store, or earlier in
\* the batch
Collisions(db, events) ==
    Cardinality({i \in 1..Len(events) :
                    \/ HasId(db, events[i].divergence_id)
                    \/ \E j \in 1..(i - 1) :
                          events[j].divergence_id = events[i].divergence_id})

\* C10: a duplicate insert is absorbed. When a stock's batch meets no other
\* insert error, every collision is counted as a duplicate, every event of the
\* batch is in the store afterwards, and the stock counts as a success, not as
\* an error.
C10_Absorb ==
    (pc = "loop" /\ idx' = idx + 1 /\ Len(last'.events) > 0 /\ last'.fail_at = 0) =>
        /\ \A i \in 1..Len(last'.events) :
              HasId(store', last'.events[i].divergence_id)
        /\ last'.dup = Collisions(store, last'.events)
        /\ last'.new = Len(last'.events) - last'.dup
        /\ success_count' = success_count + 1
        /\ error_count' = error_count
        /\ total_divergences' = total_divergences + last'.new

C20_MalformedDateRejected ==
    customDate.kind = "bad" => executed = <<>>

ResultIds(res) == {res[i].divergence_id : i \in 1..Len(res)}

\* an event satisfies all supplied clauses: an argument that is given (a date
\* that is not empty, a list that is not None, the threshold) constrains
Satisfies(row, a) ==
    /\ (a.start_date # 0) => row.end_date >= a.start_date
    /\ (a.end_date # 0) => row.end_date <= a.end_date
    /\ ~a.stock_codes.none => InCodes(row.stock_code, a.stock_codes.codes)
    /\ row.confidence >= a.min_confidence

\* C11: filter exactness. fetch_signals returns one signal for exactly the
\* events that satisfy all supplied clauses, and no others.
C11_FilterExact ==
    qstage = "fetched" =>
        /\ ResultIds(qres) = {store[j].divergence_id :
                                 j \in {k \in 1..Len(store) : Satisfies(store[k], qargs)}}
        /\ Len(qres) = Cardinality(ResultIds(qres))

SignalLeq(a, b) ==
    \/ a.signal_date < b.signal_date
    \/ a.signal_date = b.signal_date /\ StockRank(a.stock_code) <= StockRank(b.stock_code)

\* C12: ordering. Whatever the insertion order of the table, the sequence
\* fetch_signals returns is sorted ascending by (signal_date, stock_code).
C12_Sorted ==
    qstage = "fetched" =>
        \A i, j \in 1..Len(qres) : i < j => SignalLeq(qres[i], qres[j])

\* a table whose insertion order is not the sort order, both rows returned
C12_Witness ==
    /\ qstage = "fetched"
    /\ Len(store) = 2
    /\ Len(qres) = 2
    /\ ~RowLeq(store[1], store[2])
    /\ qres[1].signal_date < qres[2].signal_date

C14_Monotone ==
    qstage = "fetched" =>
        \A t1 \in MinConfidences :
            t1 < qargs.min_confidence =>
                LET lower == fetch_signals(store, qargs.start_date, qargs.end_date,
                                           qargs.stock_codes, t1,
                                           qargs.use_next_day_open, csv)
                IN  \A i \in 1..Len(qres) : \E j \in 1..Len(lower) : lower[j] = qres[i]

\* a threshold that keeps one event and drops another
C14_Witness ==
    /\ qstage = "fetched"
    /\ qargs.min_confidence = 2
    /\ Len(store) = 2
    /\ Len(qres) = 1
    /\ Len(fetch_signals(store, qargs.start_date, qargs.end_date, qargs.stock_codes, 1,
                         qargs.use_next_day_open, csv)) = 2

\* C15: convenience equivalence. get_signals_for_date(D, ...) returns the
\* sequence fetch_signals(D, D, ...) returns for the same other arguments.
C15_Equivalent ==
    qstage = "fordate" => qres = qres2

\* the day has a signal, and the table an event of another day
C15_Witness ==
    /\ qstage = "fordate"
    /\ Len(qres) = 1
    /\ Len(store) = 2
    /\ qres = qres2

\* the rows of a readable file that carry a date
RowsOf(f, d) == {i \in 1..Len(f.entries) : f.entries[i].date = d}

\* C16: look-ahead safety. A price the resolver returns for (stock, D) is the
\* open of the entry that immediately follows D's entry, and that entry is
\* dated strictly after D, whatever the content of the file.
C16_LookAheadSafe ==
    (qstage = "resolved" /\ resolved.ret.ok) =>
        LET f == csv[resolved.stock_code]
        IN  \E i \in RowsOf(f, resolved.signal_date) :
                /\ i + 1 <= Len(f.entries)
                /\ f.entries[i + 1].date > resolved.signal_date
                /\ f.entries[i + 1].open = resolved.ret.price

\* the event a signal of the result was made from
RowOf(sig) == CHOOSE j \in 1..Len(store) : store[j].divergence_id = sig.divergence_id

\* the file of a stock has an entry dated after d
HasLaterEntry(f, d) ==
    /\ f.kind = "series"
    /\ \E i \in 1..Len(f.entries) : f.entries[i].date > d

Available(f, d) ==
    /\ f.kind = "series"
    /\ Cardinality(RowsOf(f, d)) = 1
    /\ \A i \in RowsOf(f, d) : i < Len(f.entries)

InRange(row) ==
    /\ (qargs.start_date # 0) => row.end_date >= qargs.start_date
    /\ (qargs.end_date # 0) => row.end_date <= qargs.end_date

Degraded(res, files) ==
    {i \in 1..Len(res) :
        ~get_next_trading_day_open_price(files, res[i].stock_code, res[i].signal_date).ok}

\* C19: degraded marking. The signals of a fetch result that used the
\* fallback price can be told apart from those priced by the resolver: a
\* result determines which of its signals are degraded, so the same
\* result over other K-line files has the fallback in the same positions.
C19_DegradedMarked ==
    qstage = "fetched" =>
        \A files \in {NoFiles, FullFiles} :
            fetch_signals(store, qargs.start_date, qargs.end_date, qargs.stock_codes,
                          qargs.min_confidence, qargs.use_next_day_open, files) = qres
                => Degraded(qres, files) = Degraded(qres, csv)

\* ------------------------------------------- C21..C30: runs, delivery, main

\* the rows a step added to the store
Inserted == {store'[j] : j \in {k \in 1..Len(store') :
                \A i \in 1..Len(store) : store[i] # store'[k]}}

\* C24: every event that step 1.5 inserts into the store has end_date equal to
\* the target date of the step
C24_OnlyTargetDate ==
    [][pc = "loop" => \A e \in Inserted : e.end_date = target_date]_vars

\* C29: one date per run. When step 1.5 and step 2 have both worked in a run,
\* the target date of step 1.5 is the date step 2 queried.
C29_OneDatePerRun ==
    (seen.date15 # 0 /\ seen.date2 # 0) => seen.date15 = seen.date2

\* the step after a step of the list ("done" after step3), and the step a
\* position inside a loop belongs to
Following(step) == IF step = "step3" THEN "done" ELSE StepOrder[StepIndex(step) + 1]

Current == IF pc = "loop" THEN "step1.5" ELSE IF pc = "push" THEN "step3" ELSE pc

\* the skip / fail-fast rule of execute, stated without the date: a skipped step
\* hands over to the following one and leaves no outcome; a step that is run
\* enters its loop, or ends "ok" and hands over, or fails and ends the run with
\* False
RunRule ==
    (Current \in StepNames /\ pc' # pc) =>
        IF pc \in StepNames /\ IsSkipped(pc, skip)
        THEN pc' = Following(pc) /\ outcome' = outcome
        ELSE \/ pc' \in {"loop", "push"} /\ Current' = pc /\ outcome' = outcome
             \/ /\ outcome'[Current] = "ok"
                /\ pc' = Following(Current)
                /\ result' = (IF pc' = "done" THEN "True" ELSE result)
             \/ /\ outcome'[Current] \in {"fail", "raise"}
                /\ pc' = "done"
                /\ result' = "False"

\* with a well-formed --date D: step 1.5 works on D and inserts only events that
\* end on or before D; step 2 queries D and writes only signals of D
OverrideDates ==
    customDate.kind = "date" =>
        /\ pc = "loop" => target_date = customDate.d
        /\ seen.date15 \in {0, customDate.d}
        /\ seen.date2 \in {0, customDate.d}
        /\ outcome["step2"] = "ok" =>
              \A i \in 1..Len(sigFile.signals) :
                  sigFile.signals[i].signal_date = customDate.d

OverrideInserts ==
    (customDate.kind = "date" /\ pc = "loop") =>
        \A e \in Inserted : e.end_date <= customDate.d

C22_ExitStatus ==
    exitStatus.exited =>
        /\ (exitStatus.status = 0) <=> (result = "True")
        /\ (result = "False" \/ "init_raised" \in facts) => exitStatus.status # 0

\* step2 failed, execute returned False and the process exited with 1
C22_Witness ==
    /\ exitStatus = [exited |-> TRUE, status |-> 1]
    /\ result = "False"
    /\ outcome["step2"] = "fail"

\* once the loop of step 1.5 is entered the step cannot fail: it stays in the
\* loop or returns True and hands over to step2
LoopSucceeds ==
    pc = "loop" =>
        \/ pc' = "loop" /\ outcome' = outcome
        \/ pc' = "step2" /\ outcome'["step1.5"] = "ok" /\ result' = result

\* step 1.5 failed because the import failed or the configured pool was unreadable
FailsOnlyOnImportOrPool ==
    Failed("step1.5") => facts \cap {"import_failed", "pool_unreadable"} # {}

FailureCauses ==
    /\ outcome["step1.5"] = "fail" =>
          facts \cap {"import_failed", "pool_unreadable"} # {}
    /\ outcome["step1.5"] = "raise" => "db_open_failed" \in facts
    /\ facts \cap {"import_failed", "pool_unreadable", "db_open_failed"} # {} =>
          Failed("step1.5")

PoolCodes(p) == {p.codes[i] : i \in 1..Len(p.codes)}

\* C28: stock-pool confinement. When a stock pool file is configured, every
\* signal step 2 has written has a stock_code of the pool.
C28_PoolConfinement ==
    (outcome["step2"] = "ok" /\ seen.pool2.kind # "unconfigured") =>
        \A i \in 1..Len(sigFile.signals) :
            sigFile.signals[i].stock_code \in PoolCodes(seen.pool2)

\* no fault of the environment met step 3: the pusher was built, the signal file
\* was read without an I/O error, and no send was refused
DeliveryUndisturbed ==
    facts \cap {"pusher_failed", "read_failed", "send_refused"} = {}

\* C25: empty day completes. When step 2 found no matching event it succeeded
\* and wrote the signal file, and step 3, met by no fault of the environment,
\* then succeeds and the run ends in overall success.
C25_EmptyDayCompletes ==
    (outcome["step2"] = "ok" /\ Len(sigFile.signals) = 0) =>
        /\ sigFile.exists
        /\ (outcome["step3"] # "none" /\ DeliveryUndisturbed) =>
              (outcome["step3"] = "ok" /\ pc = "done" /\ result = "True")

\* how many entries of a sequence have the value x
Count(q, x) == Cardinality({i \in 1..Len(q) : q[i] = x})

\* inside the delivery loop: the loop runs over the enabled recipients of the
\* configuration; each one reached so far with a real key was sent to once,
\* each one with a placeholder key was skipped, none was left out after a
\* failure, and exactly the refused sends were counted as failures
DeliveryLoop ==
    pc = "push" =>
        /\ recipients = EnabledRecipients(sendLog.configured)
        /\ Len(sendLog.events) = ridx
        /\ ridx <= Len(recipients)
        /\ \A i \in 1..Len(recipients) :
              attempts[i] = (IF i <= ridx /\ recipients[i] = "valid" THEN 1 ELSE 0)
        /\ \A i \in 1..ridx :
              (sendLog.events[i] = "skipped") <=> (recipients[i] = "placeholder")
        /\ fail_count = Count(sendLog.events, "refused")
        /\ send_success = Count(sendLog.events, "accepted")

\* the loop is left only after its last recipient
LoopCompletes == (pc = "push" /\ pc' # "push") => ridx = Len(recipients)

\* the pusher was built and push_signals was called on an existing file
PushCalled ==
    /\ outcome["step3"] # "none"
    /\ sigFile.exists
    /\ "pusher_failed" \notin facts

\* as stated: push_signals returns True if and only if no attempted send failed
ResultAsStated ==
    PushCalled => ((outcome["step3"] = "ok") <=> ("send_refused" \notin facts))

C26_AsStated == [](DeliveryLoop /\ ResultAsStated) /\ [][LoopCompletes]_vars

\* push_signals returns True if and only if the file was read and no attempted
\* send failed
ResultOfPush ==
    PushCalled =>
        ((outcome["step3"] = "ok") <=>
            /\ "read_failed" \notin facts
            /\ sigFile.columns
            /\ "send_refused" \notin facts)

\* C26: delivery result. push_signals sends once to every enabled recipient
\* with a configured key whatever happened to the earlier ones, skips disabled
\* and placeholder recipients without counting a failure, and, when the signal
\* file could be read, returns True if and only if no attempted send failed;
\* when the file cannot be read it returns False without any send.
C26_DeliveryResult == [](DeliveryLoop /\ ResultOfPush) /\ [][LoopCompletes]_vars

\* the first send was refused and the second recipient was still sent to
C26_Witness ==
    /\ pc = "push"
    /\ ridx = MaxRecipients
    /\ sendLog.events = <<"refused", "accepted">>
    /\ attempts = <<1, 1>>

\* C27: explicit threshold wins. In a query command the threshold handed to
\* fetch_signals is the --min-confidence option whenever it is given, whatever
\* its value, and the configured value only when the option is absent.
C27_ExplicitThresholdWins ==
    qstage = "command" =>
        qargs.min_confidence = (IF cmd.given THEN cmd.option ELSE cmd.configured)

\* the rows of the store that carry an event id
RowsWithId(id) == {k \in 1..Len(store) : store[k].divergence_id = id}

====
